---- MODULE Spec2Model ----
(***************************************************************************)
(* Model of workflow/metrics/metrics.go: the Metrics registry.             *)
(*                                                                         *)
(* State: the maps of the Metrics struct (customMetrics, workflows,        *)
(* workqueueMetrics, defaultMetricDescs, metricNameHelps).  Every method   *)
(* that reads or writes a map takes m.mutex on entry and releases it by a  *)
(* deferred unlock on return.  The methods are modelled twice: as one      *)
(* atomic action each, for a single caller (Spec, SpecDesc, SpecScrape,    *)
(* SpecProvider), and statement by statement with m.mutex, for goroutines  *)
(* that call them at the same time (SpecConc, SpecFair, SpecQueue).        *)
(*                                                                         *)
(* An instrument (prometheus.Metric) is a record                           *)
(*   [obj, kind, name, help, labels]                                       *)
(* obj is the identity of the Go object, the other fields are what its     *)
(* descriptor is built from.  The value an instrument currently holds and  *)
(* the lastUpdated time stamp of a metric entry are not modelled: no       *)
(* method of the file reads them, and the methods that only update a       *)
(* built-in instrument's value (OperationCompleted, SetWorkflowPhaseGauge,  *)
(* the Increment... and Update... methods) change none of the maps.  The    *)
(* logMetric counter vector is not part of allMetrics and is left out.     *)
(***************************************************************************)
EXTENDS Integers, Sequences, FiniteSets, Bags, TLC

VARIABLES
    customMetrics,       \* map[string]metric: registration key -> instrument
    workflows,           \* map[string][]string: owner key -> list of registration keys
    workqueueMetrics,    \* map[string]prometheus.Metric: queue key -> instrument
    defaultMetricDescs,  \* map[string]bool: the descriptor strings in use by the system
    metricNameHelps,     \* map[string]string: instrument name -> help text
    lastCall,            \* the last method called, the error and the instrument it
                         \* returned, and the exists flag StopRealtimeMetricsForKey read
    realtimeSince,       \* history: owner -> keys upserted realtime under it since its last removal
    lastUpsert,          \* history: key of a stored entry -> owner, realtime flag and instrument
                         \* of the Upsert that stored it
    helpSeen,            \* history: the <<name, help>> pairs of the successful Upserts
    allocated,           \* history: queue key -> number of instruments the factories made for it
    snapshot,            \* the slice the last call of allMetrics returned to its caller
    pc,                  \* goroutine -> the statement it is at, "idle" outside the registry
    frame,               \* goroutine -> arguments and local variables of its call
    mutex                \* m.mutex: the goroutine holding it for writing, those holding it for
                         \* reading, and those blocked in Lock and in RLock

\* the goroutines calling into the registry at the same time
callers == <<pc, frame, mutex>>

vars == <<customMetrics, workflows, workqueueMetrics, defaultMetricDescs,
          metricNameHelps, lastCall, realtimeSince, lastUpsert, helpSeen,
          allocated, snapshot, pc, frame, mutex>>

registryState == <<customMetrics, workflows, workqueueMetrics, defaultMetricDescs,
                   metricNameHelps>>

---------------------------------------------------------------------------
(* Bounds of the model *)

\* a realtime Upsert is taken only while the owner's list is shorter than this
MaxIndexLen == 2

Keys == {"m1", "m2"}
Owners == {"run-A", "run-B"}
QueueNames == {"workflow"}
DescOwners == {"run-A"}

---------------------------------------------------------------------------
(* Instruments *)

Nil == [obj |-> "nil"]

NoLabels == <<>>

Instrument(obj, kind, name, help, labels) ==
    [obj |-> obj, kind |-> kind, name |-> name, help |-> help, labels |-> labels]

newCounter(name, help, labels) == Instrument("system", "counter", name, help, labels)

newGauge(name, help, labels) == Instrument("system", "gauge", name, help, labels)

newHistogram(name, help, labels) == Instrument("system", "histogram", name, help, labels)

\* newMetric.Desc().String(): the descriptor printed as fqName, help, constLabels, variableLabels
DescString(inst) ==
    <<"fqName", inst.name, "help", inst.help, "constLabels", inst.labels, "variableLabels", <<>>>>

\* reads the name and the help text back out of a printed descriptor
recoverMetricNameAndHelpFromDesc(desc) == <<desc[2], desc[4]>>

---------------------------------------------------------------------------
(* The built-in instruments that New constructs *)

workflowsProcessed == newCounter("workflows_processed_count", "Number of workflow updates processed", NoLabels)

operationDurations == newHistogram("operation_duration_seconds", "Histogram of durations of operations", NoLabels)

podDeletionLatency == newGauge("wcustom_pod_deletion_latency", "Latency for pod deletion (ms)", NoLabels)

podGCAddedToQueue == newCounter("wcustom_pod_gc_added_to_queue", "Pod GC requests added to queue", NoLabels)

podGCRemovedFromQueue == newCounter("wcustom_pod_gc_removed_from_queue", "Pod GC requests removed from queue", NoLabels)

podInformerAddPod == newCounter("wcustom_pod_informer_add_pod", "Pod informer notified that a pod was added", NoLabels)

podInformerUpdatePod == newCounter("wcustom_pod_informer_update_pod", "Pod informer notified that a pod was updated", NoLabels)

podInformerDeletePod == newCounter("wcustom_pod_informer_delete_pod", "Pod informer notified that a pod was deleted", NoLabels)

processNextItemDuration == newGauge("wcustom_process_next_item_duration", "Latency for processNextItem (ms)", NoLabels)

workflowQueueDepth == newGauge("wcustom_workflow_queue_depth", "Depth of workflow queue", NoLabels)

podQueueDepth == newGauge("wcustom_pod_queue_depth", "Depth of pod queue", NoLabels)

deadlineExceeded == newCounter("wcustom_deadline_exceeded", "Deadline exceeded", NoLabels)

NodePhases == {"Running", "Succeeded"}

ErrorCauses == {"OperationPanic", "CronWorkflowSubmissionError"}

\* getWorkflowPhaseGauges(): one gauge per phase, told apart by the status label
workflowsByPhase ==
    [p \in NodePhases |->
        newGauge("count", "Number of Workflows currently accessible by the controller by status",
                 <<<<"status", p>>>>)]

\* getErrorCounters(): one counter per error cause, told apart by the cause label
errors ==
    [c \in ErrorCauses |->
        newCounter("error_count", "Number of errors encountered by the controller by cause",
                   <<<<"cause", c>>>>)]

\* the twelve instruments allMetrics lists first
fixedMetrics ==
    { workflowsProcessed, operationDurations, podDeletionLatency, podGCAddedToQueue,
      podGCRemovedFromQueue, podInformerAddPod, podInformerUpdatePod, podInformerDeletePod,
      processNextItemDuration, workflowQueueDepth, podQueueDepth, deadlineExceeded }

Range(f) == { f[x] : x \in DOMAIN f }

\* the values of a map as a bag: one copy per map entry
MapValuesBag(f) ==
    LET vals == Range(f)
    IN  [v \in vals |-> Cardinality({ x \in DOMAIN f : f[x] = v })]

builtinMetrics == SetToBag(fixedMetrics) (+) MapValuesBag(workflowsByPhase) (+) MapValuesBag(errors)

\* allMetrics(): every instrument of the registry, in no particular order, as a bag
allMetricsOf(wq, cm) == builtinMetrics (+) MapValuesBag(wq) (+) MapValuesBag(cm)

allMetrics == allMetricsOf(workqueueMetrics, customMetrics)

---------------------------------------------------------------------------
(* Go maps as functions on the set of keys present *)

NoEntries == <<>>

\* a store that keeps the value already under the key
MapPutIfAbsent(f, k, v) == [x \in (DOMAIN f) \cup {k} |-> IF x \in DOMAIN f THEN f[x] ELSE v]

MapPut(f, k, v) == [x \in (DOMAIN f) \cup {k} |-> IF x = k THEN v ELSE f[x]]

MapDelete(f, k) == [x \in (DOMAIN f) \ {k} |-> f[x]]

\* m[k] of a map of slices: the nil slice when k is absent
SliceAt(f, k) == IF k \in DOMAIN f THEN f[k] ELSE <<>>

\* a lookup that makes up an instrument for an absent key
MetricOrZero(cm, key) ==
    IF key \in DOMAIN cm THEN cm[key] ELSE [obj |-> "zero", kind |-> "gauge", name |-> "", help |-> "", labels |-> <<>>]

\* m.customMetrics[key].metric: the nil metric when key is absent
MetricAt(cm, key) == IF key \in DOMAIN cm THEN cm[key] ELSE Nil

---------------------------------------------------------------------------
(* The instruments callers hand to UpsertCustomMetric *)

UserMetric(kind, name, help, labels) == Instrument("user", kind, name, help, labels)

\* for every built-in instrument, a caller's instrument with the same descriptor
BuiltinCopies == { [b EXCEPT !.obj = "user"] : b \in BagToSet(builtinMetrics) }

\* the name of a built-in instrument with another help text
ShadowMetric == UserMetric("counter", "workflows_processed_count", "Processed workflows", NoLabels)

\* the descriptor of the depth instrument NewDepthMetric creates for a queue
QueueDepthCopies ==
    { UserMetric("gauge", "queue_depth_count", "Depth of the queue", <<<<"queue_name", q>>>>) :
        q \in QueueNames }

CustomH1 == UserMetric("gauge", "custom_duration", "Duration of the step", NoLabels)

CustomH1Labelled == UserMetric("gauge", "custom_duration", "Duration of the step", <<<<"step", "a">>>>)

CustomH2 == UserMetric("gauge", "custom_duration", "Step duration", NoLabels)

\* the instruments tried in the owner life cycle
LifecycleMetrics == { [workflowsProcessed EXCEPT !.obj = "user"], CustomH1, CustomH1Labelled }

\* the instruments tried against the descriptor and help text checks
DescMetrics == BuiltinCopies \cup QueueDepthCopies \cup {ShadowMetric, CustomH1, CustomH2}

---------------------------------------------------------------------------
(* Results of a call *)

NoError == "nil"
ErrInUse == "already in use by the system"
ErrHelp == "help strings must be identical"

Call(op, err, exists) == [op |-> op, err |-> err, exists |-> exists, metric |-> Nil]

\* a call that returns an instrument
Returned(op, err, metric) == [op |-> op, err |-> err, exists |-> FALSE, metric |-> metric]

NoUpsert == [owner |-> "", realtime |-> FALSE, done |-> FALSE, metric |-> Nil]

\* a slice of instruments: its elements as a bag, and the array behind it, which
\* is the slice's own ("fresh") or storage the registry goes on writing ("registry")
Slice(backing, items) == [backing |-> backing, items |-> items]

NoSnapshot == Slice("none", EmptyBag)

---------------------------------------------------------------------------
(* Goroutines and m.mutex *)

Procs == {"g1", "g2", "g3"}

None == "none"

\* sync.RWMutex: at most one goroutine holds it for writing, and only while
\* none holds it for reading.  waiting are the goroutines blocked in Lock, in
\* the order they get the mutex; blocked are the goroutines blocked in RLock
Unlocked == [writer |-> None, readers |-> {}, waiting |-> <<>>, blocked |-> {}]

\* the arguments of a call and the local variables of the method
NoFrame ==
    [op |-> "", key |-> "", ownerKey |-> "", newMetric |-> Nil, realtime |-> FALSE, name |-> "",
     realtimeMetrics |-> <<>>, allMetrics |-> EmptyBag, result |-> Nil, err |-> NoError,
     acquired |-> 0]

---------------------------------------------------------------------------
(* New *)

Init ==
    /\ customMetrics = NoEntries
    /\ workflows = NoEntries
    /\ workqueueMetrics = NoEntries
    /\ metricNameHelps = NoEntries
    /\ defaultMetricDescs = { DescString(metric) : metric \in BagToSet(allMetricsOf(NoEntries, NoEntries)) }
    /\ lastCall = Call("New", NoError, FALSE)
    /\ realtimeSince = [o \in Owners |-> {}]
    /\ lastUpsert = [k \in Keys |-> NoUpsert]
    /\ helpSeen = {}
    /\ allocated = NoEntries
    /\ snapshot = NoSnapshot
    /\ pc = [g \in Procs |-> "idle"]
    /\ frame = [g \in Procs |-> NoFrame]
    /\ mutex = Unlocked

---------------------------------------------------------------------------
(* StopRealtimeMetricsForKey *)

\* a loop that stops after its first iteration
DeleteFirstOnly(cm, realtimeMetrics) ==
    IF realtimeMetrics = <<>> THEN cm ELSE MapDelete(cm, Head(realtimeMetrics))

RECURSIVE DeleteAll(_, _)
\* the loop of StopRealtimeMetricsForKey: delete(m.customMetrics, metric) for each listed key
DeleteAll(cm, realtimeMetrics) ==
    IF realtimeMetrics = <<>> THEN cm
    ELSE DeleteAll(MapDelete(cm, Head(realtimeMetrics)), Tail(realtimeMetrics))

\* an unknown owner gets an empty list of its own instead of the early return
StopCreatesEmptyIndex(key) ==
    /\ IF key \notin DOMAIN workflows
       THEN /\ workflows' = MapPut(workflows, key, <<>>)
            /\ UNCHANGED customMetrics
            /\ lastCall' = Call("StopRealtimeMetricsForKey", NoError, FALSE)
       ELSE /\ customMetrics' = DeleteAll(customMetrics, workflows[key])
            /\ workflows' = MapDelete(workflows, key)
            /\ lastCall' = Call("StopRealtimeMetricsForKey", NoError, TRUE)
    /\ realtimeSince' = [realtimeSince EXCEPT ![key] = {}]
    /\ lastUpsert' = [k \in Keys |-> IF k \in DOMAIN customMetrics' THEN lastUpsert[k] ELSE NoUpsert]
    /\ UNCHANGED <<workqueueMetrics, defaultMetricDescs, metricNameHelps, helpSeen,
                   allocated, snapshot, callers>>

\* the removal also forgets the help texts of the names no entry is left of
StopForgetsHelps(key) ==
    /\ IF key \notin DOMAIN workflows
       THEN /\ UNCHANGED <<customMetrics, workflows>>
            /\ lastCall' = Call("StopRealtimeMetricsForKey", NoError, FALSE)
       ELSE /\ customMetrics' = DeleteAll(customMetrics, workflows[key])
            /\ workflows' = MapDelete(workflows, key)
            /\ lastCall' = Call("StopRealtimeMetricsForKey", NoError, TRUE)
    /\ metricNameHelps' =
           [n \in { customMetrics'[k].name : k \in DOMAIN customMetrics' } |-> metricNameHelps[n]]
    /\ realtimeSince' = [realtimeSince EXCEPT ![key] = {}]
    /\ lastUpsert' = [k \in Keys |-> IF k \in DOMAIN customMetrics' THEN lastUpsert[k] ELSE NoUpsert]
    /\ UNCHANGED <<workqueueMetrics, defaultMetricDescs, helpSeen, allocated, snapshot, callers>>

StopRealtimeMetricsForKey(key) ==
    /\ IF key \notin DOMAIN workflows
       THEN /\ UNCHANGED <<customMetrics, workflows>>
            /\ lastCall' = Call("StopRealtimeMetricsForKey", NoError, FALSE)
       ELSE /\ customMetrics' = DeleteAll(customMetrics, workflows[key])
            /\ workflows' = MapDelete(workflows, key)
            /\ lastCall' = Call("StopRealtimeMetricsForKey", NoError, TRUE)
    /\ realtimeSince' = [realtimeSince EXCEPT ![key] = {}]
    /\ lastUpsert' = [k \in Keys |-> IF k \in DOMAIN customMetrics' THEN lastUpsert[k] ELSE NoUpsert]
    /\ UNCHANGED <<workqueueMetrics, defaultMetricDescs, metricNameHelps, helpSeen,
                   allocated, snapshot, callers>>

---------------------------------------------------------------------------
(* GetCustomMetric *)

GetCustomMetric(key) ==
    /\ lastCall' = Returned("GetCustomMetric", NoError, MetricAt(customMetrics, key))
    /\ UNCHANGED <<customMetrics, workflows, workqueueMetrics, defaultMetricDescs,
                   metricNameHelps, realtimeSince, lastUpsert, helpSeen,
                   allocated, snapshot, callers>>

---------------------------------------------------------------------------
(* UpsertCustomMetric *)

\* the table is asked for the descriptor printed without the instrument's labels
InUseIgnoringLabels(descs, newMetric) == DescString([newMetric EXCEPT !.labels = NoLabels]) \in descs

\* the comparison of the two help texts turned around
HelpConflictInverted(helps, newMetric) ==
    LET nh == recoverMetricNameAndHelpFromDesc(DescString(newMetric))
    IN  nh[1] \in DOMAIN helps /\ nh[2] = helps[nh[1]]

\* the check against the descriptors of the system's own instruments
InUseBySystem(descs, newMetric) == DescString(newMetric) \in descs

\* the check against the help text recorded for the name
HelpConflict(helps, newMetric) ==
    LET nh == recoverMetricNameAndHelpFromDesc(DescString(newMetric))
    IN  nh[1] \in DOMAIN helps /\ nh[2] # helps[nh[1]]

\* m.metricNameHelps[name] = help
RecordHelp(helps, newMetric) ==
    LET nh == recoverMetricNameAndHelpFromDesc(DescString(newMetric))
    IN  MapPut(helps, nh[1], nh[2])

\* m.workflows[ownerKey] = append(m.workflows[ownerKey], key)
TrackRealtime(wf, ownerKey, key) == MapPut(wf, ownerKey, Append(SliceAt(wf, ownerKey), key))

UpsertCustomMetric(key, ownerKey, newMetric, realtime) ==
    /\ realtime => Len(SliceAt(workflows, ownerKey)) < MaxIndexLen
    /\ IF InUseBySystem(defaultMetricDescs, newMetric)
       THEN /\ lastCall' = Call("UpsertCustomMetric", ErrInUse, FALSE)
            /\ UNCHANGED <<customMetrics, workflows, metricNameHelps, realtimeSince, lastUpsert, helpSeen>>
       ELSE IF HelpConflict(metricNameHelps, newMetric)
       THEN /\ lastCall' = Call("UpsertCustomMetric", ErrHelp, FALSE)
            /\ UNCHANGED <<customMetrics, workflows, metricNameHelps, realtimeSince, lastUpsert, helpSeen>>
       ELSE /\ metricNameHelps' = RecordHelp(metricNameHelps, newMetric)
            /\ customMetrics' = MapPut(customMetrics, key, newMetric)
            /\ IF realtime
               THEN /\ workflows' = TrackRealtime(workflows, ownerKey, key)
                    /\ realtimeSince' = [realtimeSince EXCEPT ![ownerKey] = @ \cup {key}]
               ELSE UNCHANGED <<workflows, realtimeSince>>
            /\ lastUpsert' = [lastUpsert EXCEPT ![key] =
                                 [owner |-> IF realtime THEN ownerKey ELSE "",
                                  realtime |-> realtime, done |-> TRUE, metric |-> newMetric]]
            /\ helpSeen' = helpSeen \cup {<<newMetric.name, newMetric.help>>}
            /\ lastCall' = Call("UpsertCustomMetric", NoError, FALSE)
    /\ UNCHANGED <<workqueueMetrics, defaultMetricDescs, allocated, snapshot, callers>>

---------------------------------------------------------------------------
(* The work queue metrics provider *)

ErrPanic == "panic"

\* the type assertion on the stored instrument: it panics on an instrument of another kind
TypeAssert(metric, kind) == IF metric.kind = kind THEN NoError ELSE ErrPanic

\* the number of instruments made for a queue key so far
Allocations(al, key) == IF key \in DOMAIN al THEN al[key] ELSE 0

\* the object a factory call returns: a new one at every call
Fresh(inst, key, al) == [inst EXCEPT !.obj = key \o "#" \o ToString(Allocations(al, key) + 1)]

\* an instrument is made and stored at every call
StoreAlways(wq, al, key, inst) ==
    [wq |-> MapPut(wq, key, Fresh(inst, key, al)), al |-> MapPut(al, key, Allocations(al, key) + 1)]

\* if _, ok := m.workqueueMetrics[key]; !ok { m.workqueueMetrics[key] = new...(...) }
StoreIfAbsent(wq, al, key, inst) ==
    IF key \notin DOMAIN wq
    THEN [wq |-> MapPut(wq, key, Fresh(inst, key, al)), al |-> MapPut(al, key, Allocations(al, key) + 1)]
    ELSE [wq |-> wq, al |-> al]

DepthKey(name) == name \o "-depth"

AddsKey(name) == name \o "-adds"

LatencyKey(name) == name \o "-latency"

DepthGauge(name) == newGauge("queue_depth_count", "Depth of the queue", <<<<"queue_name", name>>>>)

AddsCounter(name) == newCounter("queue_adds_count", "Adds to the queue", <<<<"queue_name", name>>>>)

LatencyHistogram(name) ==
    newHistogram("queue_latency", "Time objects spend waiting in the queue", <<<<"queue_name", name>>>>)

NewDepthMetric(name) ==
    LET key == DepthKey(name)
        stored == StoreIfAbsent(workqueueMetrics, allocated, key, DepthGauge(name))
    IN  /\ workqueueMetrics' = stored.wq
        /\ allocated' = stored.al
        /\ lastCall' = Returned("NewDepthMetric", TypeAssert(stored.wq[key], "gauge"), stored.wq[key])
        /\ UNCHANGED <<customMetrics, workflows, defaultMetricDescs, metricNameHelps,
                       realtimeSince, lastUpsert, helpSeen, snapshot, callers>>

NewAddsMetric(name) ==
    LET key == AddsKey(name)
        stored == StoreIfAbsent(workqueueMetrics, allocated, key, AddsCounter(name))
    IN  /\ workqueueMetrics' = stored.wq
        /\ allocated' = stored.al
        /\ lastCall' = Returned("NewAddsMetric", TypeAssert(stored.wq[key], "counter"), stored.wq[key])
        /\ UNCHANGED <<customMetrics, workflows, defaultMetricDescs, metricNameHelps,
                       realtimeSince, lastUpsert, helpSeen, snapshot, callers>>

NewLatencyMetric(name) ==
    LET key == LatencyKey(name)
        stored == StoreIfAbsent(workqueueMetrics, allocated, key, LatencyHistogram(name))
    IN  /\ workqueueMetrics' = stored.wq
        /\ allocated' = stored.al
        /\ lastCall' = Returned("NewLatencyMetric", TypeAssert(stored.wq[key], "histogram"), stored.wq[key])
        /\ UNCHANGED <<customMetrics, workflows, defaultMetricDescs, metricNameHelps,
                       realtimeSince, lastUpsert, helpSeen, snapshot, callers>>

\* type noopMetric struct{}
noopMetric == [obj |-> "noop"]

\* a retries instrument made and kept like the depth, adds and latency instruments
NewRetriesStored(name) ==
    LET key == name \o "-retries"
        stored == StoreIfAbsent(workqueueMetrics, allocated, key,
                                newCounter("queue_retries_count", "Retries of the queue", <<<<"queue_name", name>>>>))
    IN  /\ workqueueMetrics' = stored.wq
        /\ allocated' = stored.al
        /\ lastCall' = Returned("NewRetriesMetric", NoError, stored.wq[key])
        /\ UNCHANGED <<customMetrics, workflows, defaultMetricDescs, metricNameHelps,
                       realtimeSince, lastUpsert, helpSeen, snapshot, callers>>

NewRetriesMetric(name) ==
    /\ lastCall' = Returned("NewRetriesMetric", NoError, noopMetric)
    /\ UNCHANGED <<customMetrics, workflows, workqueueMetrics, defaultMetricDescs, metricNameHelps,
                   realtimeSince, lastUpsert, helpSeen, allocated, snapshot, callers>>

NewWorkDurationMetric(name) ==
    /\ lastCall' = Returned("NewWorkDurationMetric", NoError, noopMetric)
    /\ UNCHANGED <<customMetrics, workflows, workqueueMetrics, defaultMetricDescs, metricNameHelps,
                   realtimeSince, lastUpsert, helpSeen, allocated, snapshot, callers>>

NewUnfinishedWorkSecondsMetric(name) ==
    /\ lastCall' = Returned("NewUnfinishedWorkSecondsMetric", NoError, noopMetric)
    /\ UNCHANGED <<customMetrics, workflows, workqueueMetrics, defaultMetricDescs, metricNameHelps,
                   realtimeSince, lastUpsert, helpSeen, allocated, snapshot, callers>>

NewLongestRunningProcessorSecondsMetric(name) ==
    /\ lastCall' = Returned("NewLongestRunningProcessorSecondsMetric", NoError, noopMetric)
    /\ UNCHANGED <<customMetrics, workflows, workqueueMetrics, defaultMetricDescs, metricNameHelps,
                   realtimeSince, lastUpsert, helpSeen, allocated, snapshot, callers>>

\* the methods of noopMetric, called on the noopMetric the last call returned
noopMetricInc ==
    /\ lastCall.metric = noopMetric
    /\ lastCall' = Returned("noopMetric.Inc", NoError, noopMetric)
    /\ UNCHANGED <<customMetrics, workflows, workqueueMetrics, defaultMetricDescs, metricNameHelps,
                   realtimeSince, lastUpsert, helpSeen, allocated, snapshot, callers>>

noopMetricDec ==
    /\ lastCall.metric = noopMetric
    /\ lastCall' = Returned("noopMetric.Dec", NoError, noopMetric)
    /\ UNCHANGED <<customMetrics, workflows, workqueueMetrics, defaultMetricDescs, metricNameHelps,
                   realtimeSince, lastUpsert, helpSeen, allocated, snapshot, callers>>

noopMetricSet ==
    /\ lastCall.metric = noopMetric
    /\ lastCall' = Returned("noopMetric.Set", NoError, noopMetric)
    /\ UNCHANGED <<customMetrics, workflows, workqueueMetrics, defaultMetricDescs, metricNameHelps,
                   realtimeSince, lastUpsert, helpSeen, allocated, snapshot, callers>>

noopMetricObserve ==
    /\ lastCall.metric = noopMetric
    /\ lastCall' = Returned("noopMetric.Observe", NoError, noopMetric)
    /\ UNCHANGED <<customMetrics, workflows, workqueueMetrics, defaultMetricDescs, metricNameHelps,
                   realtimeSince, lastUpsert, helpSeen, allocated, snapshot, callers>>

---------------------------------------------------------------------------
(* allMetrics, called by one caller that keeps the slice *)

\* the slice shares its array with storage the registry goes on writing
SliceOfRegistry(items) == Slice("registry", items)

\* allMetrics := []prometheus.Metric{...}: a slice with an array of its own
NewSlice(items) == Slice("fresh", items)

\* what a caller holding the slice finds in it now
SliceItems(sl) == IF sl.backing = "registry" THEN allMetrics ELSE sl.items

AllMetricsCall ==
    /\ snapshot' = NewSlice(allMetrics)
    /\ lastCall' = Call("allMetrics", NoError, FALSE)
    /\ UNCHANGED <<customMetrics, workflows, workqueueMetrics, defaultMetricDescs, metricNameHelps,
                   realtimeSince, lastUpsert, helpSeen, allocated, callers>>

---------------------------------------------------------------------------
(* The methods statement by statement, called by several goroutines.  A   *)
(* goroutine that calls a method is at its first statement, m.mutex.Lock() *)
(* or m.mutex.RLock(); the deferred unlock runs when the method returns.   *)
(* Of the histories these steps keep lastUpsert and allocated.             *)

\* the histories only the atomic actions keep
callHistory == <<lastCall, realtimeSince, helpSeen, snapshot>>

QueueOps == {"NewDepthMetric", "NewAddsMetric", "NewLatencyMetric"}

\* the methods whose first statement is m.mutex.RLock()
ReadOps == {"GetCustomMetric", "allMetrics"}

\* the methods whose first statement is m.mutex.Lock()
WriteOps == {"UpsertCustomMetric", "StopRealtimeMetricsForKey"} \cup QueueOps

UpsertFrame(key, ownerKey, newMetric, realtime) ==
    [NoFrame EXCEPT !.op = "UpsertCustomMetric", !.key = key, !.ownerKey = ownerKey,
                    !.newMetric = newMetric, !.realtime = realtime]

StopFrame(key) == [NoFrame EXCEPT !.op = "StopRealtimeMetricsForKey", !.key = key]

GetFrame(key) == [NoFrame EXCEPT !.op = "GetCustomMetric", !.key = key]

AllMetricsFrame == [NoFrame EXCEPT !.op = "allMetrics"]

QueueFrame(op, name) == [NoFrame EXCEPT !.op = op, !.name = name]

\* every method takes the mutex for reading
AlwaysRLock(op) == "RLock"

\* the first statement of the method
LockStatement(op) == IF op \in ReadOps THEN "RLock" ELSE "Lock"

\* the statement after the lock is taken
FirstStatement(op) ==
    CASE op = "UpsertCustomMetric" -> "inUse"
      [] op = "StopRealtimeMetricsForKey" -> "exists"
      [] op = "GetCustomMetric" -> "read"
      [] op = "allMetrics" -> "literal"
      [] OTHER -> "create"

Goto(g, statement) == pc' = [pc EXCEPT ![g] = statement]

\* a goroutine outside the registry calls a method; a realtime Upsert is called
\* only while the owner's list is shorter than MaxIndexLen
Enter(g, f) ==
    /\ pc[g] = "idle"
    /\ (f.op = "UpsertCustomMetric" /\ f.realtime) =>
           Len(SliceAt(workflows, f.ownerKey)) < MaxIndexLen
    /\ Goto(g, LockStatement(f.op))
    /\ frame' = [frame EXCEPT ![g] = f]
    /\ UNCHANGED <<registryState, mutex, lastUpsert, allocated, callHistory>>

\* a writer that does not wait for the readers to leave
CanLockBesideReaders(mu) == mu.writer = None /\ mu.waiting = <<>>

\* a writer that does not wait for the writer to leave
CanLockBesideWriter(mu) == mu.readers = {} /\ mu.waiting = <<>>

\* Lock returns at once when nobody holds the mutex and nobody is blocked in Lock
CanLock(mu) == mu.writer = None /\ mu.readers = {} /\ mu.waiting = <<>>

\* RLock returns at once when nobody holds the mutex for writing and nobody is
\* blocked in Lock: a blocked Lock keeps new readers out
CanRLock(mu) == mu.writer = None /\ mu.waiting = <<>>

\* m.mutex.Lock() is called: it returns at once or blocks
Lock(g) ==
    /\ pc[g] = "Lock"
    /\ frame' = [frame EXCEPT ![g].acquired = @ + 1]
    /\ IF CanLock(mutex)
       THEN /\ mutex' = [mutex EXCEPT !.writer = g]
            /\ Goto(g, FirstStatement(frame[g].op))
       ELSE /\ mutex' = [mutex EXCEPT !.waiting = Append(@, g)]
            /\ Goto(g, "Locking")
    /\ UNCHANGED <<registryState, lastUpsert, allocated, callHistory>>

\* m.mutex.Lock() returns to the goroutine blocked longest, once the holders have left
LockAcquired(g) ==
    /\ pc[g] = "Locking"
    /\ mutex.waiting # <<>>
    /\ Head(mutex.waiting) = g
    /\ mutex.writer = None
    /\ mutex.readers = {}
    /\ mutex' = [mutex EXCEPT !.writer = g, !.waiting = Tail(@)]
    /\ Goto(g, FirstStatement(frame[g].op))
    /\ UNCHANGED <<registryState, frame, lastUpsert, allocated, callHistory>>

\* m.mutex.RLock() is called: it returns at once or blocks
RLock(g) ==
    /\ pc[g] = "RLock"
    /\ frame' = [frame EXCEPT ![g].acquired = @ + 1]
    /\ IF CanRLock(mutex)
       THEN /\ mutex' = [mutex EXCEPT !.readers = @ \cup {g}]
            /\ Goto(g, FirstStatement(frame[g].op))
       ELSE /\ mutex' = [mutex EXCEPT !.blocked = @ \cup {g}]
            /\ Goto(g, "RLocking")
    /\ UNCHANGED <<registryState, lastUpsert, allocated, callHistory>>

\* m.mutex.RLock() returns to a goroutine the writer's Unlock has let in
RLockAcquired(g) ==
    /\ pc[g] = "RLocking"
    /\ g \in mutex.readers
    /\ Goto(g, FirstStatement(frame[g].op))
    /\ UNCHANGED <<registryState, frame, mutex, lastUpsert, allocated, callHistory>>

\* the history of the Upserts that returned without an error
UpsertReturned(lu, f) ==
    IF f.op = "UpsertCustomMetric" /\ f.err = NoError
    THEN [lu EXCEPT ![f.key] = [owner |-> IF f.realtime THEN f.ownerKey ELSE "",
                                realtime |-> f.realtime, done |-> TRUE, metric |-> f.newMetric]]
    ELSE lu

\* the method returns: defer m.mutex.Unlock(), which lets in the goroutines
\* blocked in RLock
Unlock(g) ==
    /\ pc[g] = "Unlock"
    /\ mutex' = [mutex EXCEPT !.writer = None, !.readers = @ \cup mutex.blocked, !.blocked = {}]
    /\ lastUpsert' = UpsertReturned(lastUpsert, frame[g])
    /\ frame' = [frame EXCEPT ![g] = NoFrame]
    /\ Goto(g, "idle")
    /\ UNCHANGED <<registryState, allocated, callHistory>>

\* the method returns: defer m.mutex.RUnlock()
RUnlock(g) ==
    /\ pc[g] = "RUnlock"
    /\ mutex' = [mutex EXCEPT !.readers = @ \ {g}]
    /\ frame' = [frame EXCEPT ![g] = NoFrame]
    /\ Goto(g, "idle")
    /\ UNCHANGED <<registryState, lastUpsert, allocated, callHistory>>

\* UpsertCustomMetric, lines 232-235
UpsertInUse(g) ==
    /\ pc[g] = "inUse"
    /\ IF InUseBySystem(defaultMetricDescs, frame[g].newMetric)
       THEN /\ frame' = [frame EXCEPT ![g].err = ErrInUse]
            /\ Goto(g, "Unlock")
       ELSE /\ UNCHANGED frame
            /\ Goto(g, "help")
    /\ UNCHANGED <<registryState, mutex, lastUpsert, allocated, callHistory>>

\* the second error return leaves the method without the unlock
UpsertHelpKeepsLock(g) ==
    /\ pc[g] = "help"
    /\ IF HelpConflict(metricNameHelps, frame[g].newMetric)
       THEN /\ frame' = [frame EXCEPT ![g] = NoFrame]
            /\ Goto(g, "idle")
            /\ UNCHANGED metricNameHelps
       ELSE /\ metricNameHelps' = RecordHelp(metricNameHelps, frame[g].newMetric)
            /\ UNCHANGED frame
            /\ Goto(g, "store")
    /\ UNCHANGED <<customMetrics, workflows, workqueueMetrics, defaultMetricDescs,
                   mutex, lastUpsert, allocated, callHistory>>

\* UpsertCustomMetric, lines 236-241
UpsertHelp(g) ==
    /\ pc[g] = "help"
    /\ IF HelpConflict(metricNameHelps, frame[g].newMetric)
       THEN /\ frame' = [frame EXCEPT ![g].err = ErrHelp]
            /\ Goto(g, "Unlock")
            /\ UNCHANGED metricNameHelps
       ELSE /\ metricNameHelps' = RecordHelp(metricNameHelps, frame[g].newMetric)
            /\ UNCHANGED frame
            /\ Goto(g, "store")
    /\ UNCHANGED <<customMetrics, workflows, workqueueMetrics, defaultMetricDescs,
                   mutex, lastUpsert, allocated, callHistory>>

\* UpsertCustomMetric, lines 242-245
UpsertStore(g) ==
    /\ pc[g] = "store"
    /\ customMetrics' = MapPut(customMetrics, frame[g].key, frame[g].newMetric)
    /\ Goto(g, IF frame[g].realtime THEN "trackRead" ELSE "Unlock")
    /\ UNCHANGED <<workflows, workqueueMetrics, defaultMetricDescs, metricNameHelps,
                   frame, mutex, lastUpsert, allocated, callHistory>>

\* UpsertCustomMetric, line 246: the operand m.workflows[ownerKey] of append
UpsertTrackRead(g) ==
    /\ pc[g] = "trackRead"
    /\ frame' = [frame EXCEPT ![g].realtimeMetrics = SliceAt(workflows, frame[g].ownerKey)]
    /\ Goto(g, "trackWrite")
    /\ UNCHANGED <<registryState, mutex, lastUpsert, allocated, callHistory>>

\* UpsertCustomMetric, line 246: the assignment of the appended slice
UpsertTrackWrite(g) ==
    /\ pc[g] = "trackWrite"
    /\ workflows' = MapPut(workflows, frame[g].ownerKey,
                           Append(frame[g].realtimeMetrics, frame[g].key))
    /\ frame' = [frame EXCEPT ![g].realtimeMetrics = <<>>]
    /\ Goto(g, "Unlock")
    /\ UNCHANGED <<customMetrics, workqueueMetrics, defaultMetricDescs, metricNameHelps,
                   mutex, lastUpsert, allocated, callHistory>>

\* StopRealtimeMetricsForKey, lines 201-204
StopExists(g) ==
    /\ pc[g] = "exists"
    /\ IF frame[g].key \notin DOMAIN workflows
       THEN /\ UNCHANGED frame
            /\ Goto(g, "Unlock")
       ELSE /\ frame' = [frame EXCEPT ![g].realtimeMetrics = workflows[frame[g].key]]
            /\ Goto(g, "range")
    /\ UNCHANGED <<registryState, mutex, lastUpsert, allocated, callHistory>>

\* StopRealtimeMetricsForKey, lines 205-207: one turn of the loop
StopRange(g) ==
    /\ pc[g] = "range"
    /\ IF frame[g].realtimeMetrics = <<>>
       THEN /\ UNCHANGED <<customMetrics, frame, lastUpsert>>
            /\ Goto(g, "deleteList")
       ELSE /\ customMetrics' = MapDelete(customMetrics, Head(frame[g].realtimeMetrics))
            /\ frame' = [frame EXCEPT ![g].realtimeMetrics = Tail(@)]
            /\ lastUpsert' = [k \in Keys |->
                                 IF k \in DOMAIN customMetrics' THEN lastUpsert[k] ELSE NoUpsert]
            /\ UNCHANGED pc
    /\ UNCHANGED <<workflows, workqueueMetrics, defaultMetricDescs, metricNameHelps,
                   mutex, allocated, callHistory>>

\* StopRealtimeMetricsForKey, line 210
StopDeleteList(g) ==
    /\ pc[g] = "deleteList"
    /\ workflows' = MapDelete(workflows, frame[g].key)
    /\ Goto(g, "Unlock")
    /\ UNCHANGED <<customMetrics, workqueueMetrics, defaultMetricDescs, metricNameHelps,
                   frame, mutex, lastUpsert, allocated, callHistory>>

\* GetCustomMetric, line 225
GetRead(g) ==
    /\ pc[g] = "read"
    /\ frame' = [frame EXCEPT ![g].result = MetricAt(customMetrics, frame[g].key)]
    /\ Goto(g, "RUnlock")
    /\ UNCHANGED <<registryState, mutex, lastUpsert, allocated, callHistory>>

\* allMetrics, lines 128-147: the slice literal and the two maps New filled
AllMetricsLiteral(g) ==
    /\ pc[g] = "literal"
    /\ frame' = [frame EXCEPT ![g].allMetrics = builtinMetrics]
    /\ Goto(g, "rangeQueue")
    /\ UNCHANGED <<registryState, mutex, lastUpsert, allocated, callHistory>>

\* allMetrics, lines 148-150
AllMetricsRangeQueue(g) ==
    /\ pc[g] = "rangeQueue"
    /\ frame' = [frame EXCEPT ![g].allMetrics = @ (+) MapValuesBag(workqueueMetrics)]
    /\ Goto(g, "rangeCustom")
    /\ UNCHANGED <<registryState, mutex, lastUpsert, allocated, callHistory>>

\* allMetrics, lines 151-154
AllMetricsRangeCustom(g) ==
    /\ pc[g] = "rangeCustom"
    /\ frame' = [frame EXCEPT ![g].allMetrics = @ (+) MapValuesBag(customMetrics)]
    /\ Goto(g, "RUnlock")
    /\ UNCHANGED <<registryState, mutex, lastUpsert, allocated, callHistory>>

QueueKey(f) ==
    CASE f.op = "NewDepthMetric" -> DepthKey(f.name)
      [] f.op = "NewAddsMetric" -> AddsKey(f.name)
      [] OTHER -> LatencyKey(f.name)

QueueInstrument(f) ==
    CASE f.op = "NewDepthMetric" -> DepthGauge(f.name)
      [] f.op = "NewAddsMetric" -> AddsCounter(f.name)
      [] OTHER -> LatencyHistogram(f.name)

QueueKind(f) ==
    CASE f.op = "NewDepthMetric" -> "gauge"
      [] f.op = "NewAddsMetric" -> "counter"
      [] OTHER -> "histogram"

\* the queue accessors, lines 287-290, 298-301 and 309-312
QueueCreate(g) ==
    LET stored == StoreIfAbsent(workqueueMetrics, allocated, QueueKey(frame[g]),
                                QueueInstrument(frame[g]))
    IN  /\ pc[g] = "create"
        /\ workqueueMetrics' = stored.wq
        /\ allocated' = stored.al
        /\ Goto(g, "return")
        /\ UNCHANGED <<customMetrics, workflows, defaultMetricDescs, metricNameHelps,
                       frame, mutex, lastUpsert, callHistory>>

\* the queue accessors, lines 291, 302 and 313
QueueReturn(g) ==
    /\ pc[g] = "return"
    /\ frame' = [frame EXCEPT ![g].result = workqueueMetrics[QueueKey(frame[g])],
                              ![g].err = TypeAssert(workqueueMetrics[QueueKey(frame[g])],
                                                    QueueKind(frame[g]))]
    /\ Goto(g, "Unlock")
    /\ UNCHANGED <<registryState, mutex, lastUpsert, allocated, callHistory>>

---------------------------------------------------------------------------

\* the owner life cycle: two owners, a few instruments
Next ==
    \/ \E key \in Keys, ownerKey \in Owners, newMetric \in LifecycleMetrics, realtime \in BOOLEAN :
          UpsertCustomMetric(key, ownerKey, newMetric, realtime)
    \/ \E key \in Owners : StopRealtimeMetricsForKey(key)
    \/ \E key \in Keys : GetCustomMetric(key)
    \/ \E name \in QueueNames : NewDepthMetric(name)
    \/ \E name \in QueueNames : NewAddsMetric(name)
    \/ \E name \in QueueNames : NewLatencyMetric(name)

Spec == Init /\ [][Next]_vars

\* the descriptor checks: one owner, every built-in descriptor and the clashing instruments
NextDesc ==
    \/ \E key \in Keys, ownerKey \in DescOwners, newMetric \in DescMetrics, realtime \in BOOLEAN :
          UpsertCustomMetric(key, ownerKey, newMetric, realtime)
    \/ \E key \in DescOwners : StopRealtimeMetricsForKey(key)
    \/ \E key \in Keys : GetCustomMetric(key)
    \/ \E name \in QueueNames : NewDepthMetric(name)
    \/ \E name \in QueueNames : NewAddsMetric(name)
    \/ \E name \in QueueNames : NewLatencyMetric(name)

SpecDesc == Init /\ [][NextDesc]_vars

\* a scrape and what happens to the registry after it: one owner, one queue
ScrapeMetrics == {CustomH1, CustomH1Labelled}

NextScrape ==
    \/ \E key \in Keys, ownerKey \in DescOwners, newMetric \in ScrapeMetrics, realtime \in BOOLEAN :
          UpsertCustomMetric(key, ownerKey, newMetric, realtime)
    \/ \E key \in DescOwners : StopRealtimeMetricsForKey(key)
    \/ \E name \in QueueNames : NewDepthMetric(name)
    \/ AllMetricsCall

SpecScrape == Init /\ [][NextScrape]_vars

\* the work queue metrics provider: the seven accessors for two queues
ProviderQueues == {"workflow", "pod"}

NextProvider ==
    \/ \E key \in Keys, ownerKey \in DescOwners, realtime \in BOOLEAN :
          UpsertCustomMetric(key, ownerKey, CustomH1, realtime)
    \/ \E key \in DescOwners : StopRealtimeMetricsForKey(key)
    \/ \E name \in ProviderQueues : NewDepthMetric(name)
    \/ \E name \in ProviderQueues : NewAddsMetric(name)
    \/ \E name \in ProviderQueues : NewLatencyMetric(name)
    \/ \E name \in ProviderQueues : NewRetriesMetric(name)
    \/ \E name \in ProviderQueues : NewWorkDurationMetric(name)
    \/ \E name \in ProviderQueues : NewUnfinishedWorkSecondsMetric(name)
    \/ \E name \in ProviderQueues : NewLongestRunningProcessorSecondsMetric(name)
    \/ noopMetricInc
    \/ noopMetricDec
    \/ noopMetricSet
    \/ noopMetricObserve

SpecProvider == Init /\ [][NextProvider]_vars

\* three goroutines at once: two that upsert under a key of their own, remove
\* the owner and ask for the depth instrument, and one that reads
ConcCalls(g) ==
    CASE g = "g1" ->
             { UpsertFrame("m1", "run-A", CustomH1, TRUE),
               UpsertFrame("m1", "run-A", [workflowsProcessed EXCEPT !.obj = "user"], TRUE),
               StopFrame("run-A") }
      [] g = "g2" ->
             { UpsertFrame("m2", "run-A", CustomH1Labelled, TRUE),
               UpsertFrame("m2", "run-A", CustomH2, FALSE),
               QueueFrame("NewDepthMetric", "workflow"),
               GetFrame("m1") }
      [] OTHER ->
             { GetFrame("m1"), GetFrame("m2"), AllMetricsFrame,
               QueueFrame("NewDepthMetric", "workflow") }

NextConc ==
    \/ \E g \in Procs : \E f \in ConcCalls(g) : Enter(g, f)
    \/ \E g \in Procs : Lock(g)
    \/ \E g \in Procs : LockAcquired(g)
    \/ \E g \in Procs : RLock(g)
    \/ \E g \in Procs : RLockAcquired(g)
    \/ \E g \in Procs : Unlock(g)
    \/ \E g \in Procs : RUnlock(g)
    \/ \E g \in Procs : UpsertInUse(g)
    \/ \E g \in Procs : UpsertHelp(g)
    \/ \E g \in Procs : UpsertStore(g)
    \/ \E g \in Procs : UpsertTrackRead(g)
    \/ \E g \in Procs : UpsertTrackWrite(g)
    \/ \E g \in Procs : StopExists(g)
    \/ \E g \in Procs : StopRange(g)
    \/ \E g \in Procs : StopDeleteList(g)
    \/ \E g \in Procs : GetRead(g)
    \/ \E g \in Procs : AllMetricsLiteral(g)
    \/ \E g \in Procs : AllMetricsRangeQueue(g)
    \/ \E g \in Procs : AllMetricsRangeCustom(g)
    \/ \E g \in Procs : QueueCreate(g)
    \/ \E g \in Procs : QueueReturn(g)

SpecConc == Init /\ [][NextConc]_vars

\* the statements of a method
Run(g) ==
    \/ Lock(g)
    \/ LockAcquired(g)
    \/ RLock(g)
    \/ RLockAcquired(g)
    \/ Unlock(g)
    \/ RUnlock(g)
    \/ UpsertInUse(g)
    \/ UpsertHelp(g)
    \/ UpsertStore(g)
    \/ UpsertTrackRead(g)
    \/ UpsertTrackWrite(g)
    \/ StopExists(g)
    \/ StopRange(g)
    \/ StopDeleteList(g)
    \/ GetRead(g)
    \/ AllMetricsLiteral(g)
    \/ AllMetricsRangeQueue(g)
    \/ AllMetricsRangeCustom(g)
    \/ QueueCreate(g)
    \/ QueueReturn(g)

\* the Go scheduler runs every goroutine that can run; callers need not call
Fairness == \A g \in Procs : WF_vars(Run(g))

SpecFair == Init /\ [][NextConc]_vars /\ Fairness

\* the work queues set up at the same time: every goroutine asks for the three
\* instruments of both queues
QueueCalls == { QueueFrame(op, name) : op \in QueueOps, name \in ProviderQueues }

NextQueue ==
    \/ \E g \in Procs : \E f \in QueueCalls : Enter(g, f)
    \/ \E g \in Procs : Lock(g)
    \/ \E g \in Procs : LockAcquired(g)
    \/ \E g \in Procs : QueueCreate(g)
    \/ \E g \in Procs : QueueReturn(g)
    \/ \E g \in Procs : Unlock(g)

SpecQueue == Init /\ [][NextQueue]_vars

---------------------------------------------------------------------------
(* The owner life cycle, under Spec *)

\* C1: every registration key listed in the owner index under any owner is
\* present in the dynamic entry map.
C1_IndexedKeysPresent ==
    \A ownerKey \in DOMAIN workflows :
        \A i \in 1..Len(workflows[ownerKey]) : workflows[ownerKey][i] \in DOMAIN customMetrics

\* C2: StopRealtimeMetricsForKey(a) leaves every entry whose most recent
\* successful Upsert was realtime under another owner b present with the same
\* instrument, and leaves b's list unchanged.
C2_OwnerIsolation ==
    [][\A a \in Owners :
         StopRealtimeMetricsForKey(a) =>
             \A b \in Owners \ {a} :
                 /\ \A k \in DOMAIN customMetrics :
                        (lastUpsert[k].realtime /\ lastUpsert[k].owner = b) =>
                            (k \in DOMAIN customMetrics' /\ customMetrics'[k] = customMetrics[k])
                 /\ (b \in DOMAIN workflows') = (b \in DOMAIN workflows)
                 /\ SliceAt(workflows', b) = SliceAt(workflows, b)]_vars

\* C3: StopRealtimeMetricsForKey leaves every entry whose most recent
\* successful Upsert had realtime = false present with the same instrument.
C3_NonRealtimeKept ==
    [][\A a \in Owners :
         StopRealtimeMetricsForKey(a) =>
             \A k \in DOMAIN customMetrics :
                 (lastUpsert[k].done /\ ~lastUpsert[k].realtime) =>
                     (k \in DOMAIN customMetrics' /\ customMetrics'[k] = customMetrics[k])]_vars

\* C4: after StopRealtimeMetricsForKey(a), GetCustomMetric finds nothing under
\* any key upserted realtime under a since a's previous removal, and a has no
\* list left in the owner index.
C4_OwnerTeardown ==
    [][\A a \in Owners :
         StopRealtimeMetricsForKey(a) =>
             /\ \A k \in realtimeSince[a] : MetricAt(customMetrics', k) = Nil
             /\ a \notin DOMAIN workflows']_vars

\* C4 witness: a removal found the owner's list and took entries away, while
\* another owner still has entries.
C4_Witness ==
    /\ lastCall.op = "StopRealtimeMetricsForKey"
    /\ lastCall.exists
    /\ \E k \in Keys : k \notin DOMAIN customMetrics
    /\ workflows # NoEntries

\* C5: StopRealtimeMetricsForKey on an owner without a list changes none of the
\* maps and returns no error; and after any StopRealtimeMetricsForKey(a) the
\* owner a has no list, so a second call is such a no-op.
C5_StopUnknownOwnerNoOp ==
    [][\A a \in Owners :
         StopRealtimeMetricsForKey(a) =>
             /\ a \notin DOMAIN workflows =>
                    (UNCHANGED registryState /\ lastCall'.err = NoError)
             /\ a \notin DOMAIN workflows']_vars

\* C5 witness: a removal returned early on a registry that holds entries,
\* lists, help texts and queue instruments.
C5_Witness ==
    /\ lastCall.op = "StopRealtimeMetricsForKey"
    /\ ~lastCall.exists
    /\ customMetrics # NoEntries
    /\ workflows # NoEntries
    /\ metricNameHelps # NoEntries
    /\ workqueueMetrics # NoEntries

\* C6: each owner's list holds any registration key at most once.
C6_IndexNoDuplicates ==
    \A ownerKey \in DOMAIN workflows :
        \A i, j \in 1..Len(workflows[ownerKey]) :
            i # j => workflows[ownerKey][i] # workflows[ownerKey][j]

\* C12: GetCustomMetric(key) returns the instrument of the most recent
\* successful Upsert of the key when no removal has deleted that entry since,
\* and nil otherwise; it returns no error and changes none of the maps.
C12_GetReturnsLastUpsert ==
    [][\A key \in Keys :
         GetCustomMetric(key) =>
             /\ lastCall'.metric = (IF lastUpsert[key].done THEN lastUpsert[key].metric ELSE Nil)
             /\ lastCall'.err = NoError
             /\ UNCHANGED registryState]_vars

\* C12 witness: a Get returned the instrument that replaced another under a
\* key upserted twice, while a removal of the other owner has left no list.
C12_Witness ==
    /\ lastCall.op = "GetCustomMetric"
    /\ lastCall.metric = CustomH1Labelled
    /\ SliceAt(workflows, "run-A") = <<"m1", "m1">>
    /\ "run-B" \notin DOMAIN workflows
    /\ "m2" \notin DOMAIN customMetrics


---------------------------------------------------------------------------
(* The descriptor and help text checks, under SpecDesc *)

\* the maps an Upsert writes
upsertState == <<customMetrics, workflows, metricNameHelps>>

\* the descriptor of some built-in instrument
IsBuiltinDesc(desc) == \E b \in BagToSet(builtinMetrics) : DescString(b) = desc

\* the instruments tried whose descriptor equals that of a built-in instrument
CollidingMetrics == { newMetric \in DescMetrics : IsBuiltinDesc(DescString(newMetric)) }

\* C7: an Upsert of an instrument whose descriptor equals that of a built-in
\* instrument returns the in-use error, for any key, owner key and realtime
\* flag, and leaves the entry map, the owner index and the help registry as
\* they were: a step is such a refusal, or it is no Upsert of such an instrument.
C7_DescriptorCollision ==
    [][\/ (lastCall'.err = ErrInUse /\ UNCHANGED upsertState)
       \/ \A newMetric \in CollidingMetrics, key \in Keys, ownerKey \in DescOwners, realtime \in BOOLEAN :
              ~UpsertCustomMetric(key, ownerKey, newMetric, realtime)]_vars

\* C7 witness: an Upsert was turned down as in use by the system on a registry
\* that holds entries, lists and help texts.
C7_Witness ==
    /\ lastCall.op = "UpsertCustomMetric"
    /\ lastCall.err = ErrInUse
    /\ customMetrics # NoEntries
    /\ workflows # NoEntries
    /\ metricNameHelps # NoEntries

\* C8: once a name was registered by a successful Upsert with one help text, an
\* Upsert of an instrument of that name with another help text returns an error
\* and leaves the entry map, the owner index and the help registry as they
\* were, so the first registration's entry still holds its instrument: a step
\* is such a refusal, or it is no Upsert of such an instrument.
C8_HelpTextMismatch ==
    [][\/ (lastCall'.err # NoError /\ UNCHANGED upsertState)
       \/ \A newMetric \in DescMetrics :
              (\E seen \in helpSeen : seen[1] = newMetric.name /\ seen[2] # newMetric.help) =>
                  \A key \in Keys, ownerKey \in DescOwners, realtime \in BOOLEAN :
                      ~UpsertCustomMetric(key, ownerKey, newMetric, realtime)]_vars

\* C8 witness: an Upsert was turned down for its help text while the entry of
\* the first registration of that name is stored.
C8_Witness ==
    /\ lastCall.op = "UpsertCustomMetric"
    /\ lastCall.err = ErrHelp
    /\ \E k \in DOMAIN customMetrics : customMetrics[k] = CustomH1
    /\ <<CustomH1.name, CustomH1.help>> \in helpSeen

\* C9: any two instruments of the registry (built-in, queue, dynamic) with the
\* same name have the same help text.
C9_HelpConsistency ==
    \A x \in BagToSet(allMetrics) : \A y \in BagToSet(allMetrics) :
        x.name = y.name => x.help = y.help

\* C10: allMetrics holds no two instruments with the same descriptor.
C10_CollisionFree ==
    \A x \in BagToSet(allMetrics) :
        /\ CopiesIn(x, allMetrics) = 1
        /\ \A y \in BagToSet(allMetrics) : DescString(x) = DescString(y) => x = y

\* the instruments tried whose name is recorded with another help text
MismatchedMetrics ==
    { newMetric \in DescMetrics :
        /\ newMetric.name \in DOMAIN metricNameHelps
        /\ metricNameHelps[newMetric.name] # newMetric.help }

\* C19: no step changes defaultMetricDescs; every name of the help registry
\* keeps its help text in every step, removals included; and an Upsert of an
\* instrument whose name is recorded with another help text does not succeed,
\* whether or not an entry of that name is left.
C19_TablesOnlyGrow ==
    [][/\ defaultMetricDescs' = defaultMetricDescs
       /\ \A n \in DOMAIN metricNameHelps :
              n \in DOMAIN metricNameHelps' /\ metricNameHelps'[n] = metricNameHelps[n]
       /\ \/ lastCall'.op # "UpsertCustomMetric"
          \/ lastCall'.err # NoError
          \/ \A newMetric \in MismatchedMetrics, key \in Keys, ownerKey \in DescOwners,
                realtime \in BOOLEAN :
                 ~UpsertCustomMetric(key, ownerKey, newMetric, realtime)]_vars

\* C19 witness: an Upsert was turned down for its help text although the
\* removal has left no entry, the name still being in the help registry.
C19_Witness ==
    /\ lastCall.op = "UpsertCustomMetric"
    /\ lastCall.err = ErrHelp
    /\ customMetrics = NoEntries
    /\ "custom_duration" \in DOMAIN metricNameHelps

---------------------------------------------------------------------------
(* The entries and the returned slice, under SpecScrape *)

\* C11: a successful Upsert under a key that already holds an entry leaves the
\* entry map with the same keys, the key bound to the new instrument, every
\* other key bound to what it held, and allMetrics of the same size with one
\* copy less of the replaced instrument when the new one is another object.
C11_IdempotentOverwrite ==
    [][\/ lastCall'.op # "UpsertCustomMetric"
       \/ lastCall'.err # NoError
       \/ \A key \in DOMAIN customMetrics, ownerKey \in DescOwners, newMetric \in ScrapeMetrics,
             realtime \in BOOLEAN :
              UpsertCustomMetric(key, ownerKey, newMetric, realtime) =>
                  /\ DOMAIN customMetrics' = DOMAIN customMetrics
                  /\ MetricAt(customMetrics', key) = newMetric
                  /\ \A k \in DOMAIN customMetrics \ {key} : customMetrics'[k] = customMetrics[k]
                  /\ BagCardinality(allMetrics') = BagCardinality(allMetrics)
                  /\ customMetrics[key] # newMetric =>
                         CopiesIn(customMetrics[key], allMetrics') =
                             CopiesIn(customMetrics[key], allMetrics) - 1]_vars

\* C11 witness: a key was upserted twice under the same owner, the second
\* Upsert succeeded with the labelled instrument, and the other key holds an entry.
C11_Witness ==
    /\ lastCall.op = "UpsertCustomMetric"
    /\ lastCall.err = NoError
    /\ SliceAt(workflows, "run-A") = <<"m1", "m1">>
    /\ MetricAt(customMetrics, "m1") = CustomH1Labelled
    /\ "m2" \in DOMAIN customMetrics


\* C14: once allMetrics has returned a slice, no Upsert, removal or queue
\* accessor changes what the caller finds in the slice, neither its length nor
\* its elements.
C14_SnapshotStability ==
    [][(snapshot # NoSnapshot /\ ~AllMetricsCall) =>
           /\ (SliceItems(snapshot))' = SliceItems(snapshot)
           /\ (BagCardinality(SliceItems(snapshot)))' = BagCardinality(SliceItems(snapshot))]_vars

\* C14 witness: the slice on hand holds an instrument a later removal took out
\* of the registry, and lacks a queue instrument and an entry made after it.
C14_Witness ==
    /\ snapshot # NoSnapshot
    /\ \E x \in BagToSet(SliceItems(snapshot)) : ~BagIn(x, allMetrics)
    /\ \E y \in Range(workqueueMetrics) : ~BagIn(y, SliceItems(snapshot))
    /\ \E k \in DOMAIN customMetrics : ~BagIn(customMetrics[k], SliceItems(snapshot))

---------------------------------------------------------------------------
(* The instruments that are not exposed, under SpecProvider *)

\* a call of one of the four accessors that return a noopMetric or of one of
\* the four methods of noopMetric
NoopStep ==
    \/ \E name \in ProviderQueues : NewRetriesMetric(name)
    \/ \E name \in ProviderQueues : NewWorkDurationMetric(name)
    \/ \E name \in ProviderQueues : NewUnfinishedWorkSecondsMetric(name)
    \/ \E name \in ProviderQueues : NewLongestRunningProcessorSecondsMetric(name)
    \/ noopMetricInc
    \/ noopMetricDec
    \/ noopMetricSet
    \/ noopMetricObserve

\* C20: asking for the retries, work duration, unfinished work or longest
\* running processor instrument of any queue, and calling Inc, Dec, Set or
\* Observe on what was returned, returns no error and leaves the queue map, the
\* entry map, the owner index, the help registry and allMetrics as they were.
C20_NoopKinds ==
    [][NoopStep =>
           /\ lastCall'.err = NoError
           /\ UNCHANGED registryState
           /\ allMetrics' = allMetrics]_vars

\* C20 witness: a method of noopMetric was called on a registry that holds
\* queue instruments of both queues, an entry, a list and a help text.
C20_Witness ==
    /\ lastCall.op = "noopMetric.Observe"
    /\ \A name \in ProviderQueues : DepthKey(name) \in DOMAIN workqueueMetrics
    /\ customMetrics # NoEntries
    /\ workflows # NoEntries
    /\ metricNameHelps # NoEntries

---------------------------------------------------------------------------
(* The queue accessors called at the same time, under SpecQueue *)

\* C13: no step replaces or removes an instrument of the queue map; the
\* factories make one instrument per queue key and no second one; and every
\* call of an accessor, in whatever order the goroutines run, returns without
\* a panic the instrument the map holds under the key of its name and kind,
\* which is the first one made for it.
C13_QueueMemoization ==
    [][/\ \A key \in DOMAIN workqueueMetrics :
              key \in DOMAIN workqueueMetrics' /\ workqueueMetrics'[key] = workqueueMetrics[key]
       /\ \A key \in DOMAIN allocated' : allocated'[key] = 1
       /\ \A g \in Procs :
              (pc'[g] = "Unlock" /\ frame'[g].op \in QueueOps) =>
                  /\ frame'[g].err = NoError
                  /\ frame'[g].result = workqueueMetrics'[QueueKey(frame'[g])]
                  /\ frame'[g].result = Fresh(QueueInstrument(frame'[g]), QueueKey(frame'[g]), NoEntries)]_vars

\* C13 witness: two goroutines called the same accessor for the same queue;
\* one is about to return the stored instrument while the other still waits
\* for the mutex, and the instruments of the other queue exist as well.
C13_Witness ==
    /\ pc["g1"] = "Unlock"
    /\ pc["g2"] = "Locking"
    /\ frame["g1"].op = "NewLatencyMetric"
    /\ frame["g2"].op = frame["g1"].op
    /\ frame["g2"].name = frame["g1"].name
    /\ frame["g1"].result = workqueueMetrics[LatencyKey(frame["g1"].name)]
    /\ \A name \in ProviderQueues : AddsKey(name) \in DOMAIN workqueueMetrics

---------------------------------------------------------------------------
(* The goroutines, under SpecConc and SpecFair *)

\* the goroutine is between its lock statement and its return
Holding(g) == pc[g] \notin {"idle", "Lock", "Locking", "RLock", "RLocking"}

\* C15: while a call of allMetrics holds the mutex no writer is between its
\* Lock and its return, so no mutation is half applied; what the call has
\* collected before it ranges over the entries is the built-in and queue
\* instruments of the present registry, and what it returns is exactly
\* allMetrics of the registry as it is when the call returns.
C15_AtomicScrape ==
    \A g \in Procs :
        (frame[g].op = "allMetrics" /\ Holding(g)) =>
            /\ \A h \in Procs : Holding(h) => frame[h].op \in ReadOps
            /\ pc[g] = "rangeCustom" =>
                   frame[g].allMetrics = builtinMetrics (+) MapValuesBag(workqueueMetrics)
            /\ pc[g] = "RUnlock" => frame[g].allMetrics = allMetrics

\* C15 witness: a call of allMetrics is about to return both entries and the
\* queue instrument while a removal of the owner that lists two keys and an
\* Upsert wait for the mutex.
C15_Witness ==
    /\ pc["g3"] = "RUnlock"
    /\ frame["g3"].op = "allMetrics"
    /\ BagCardinality(frame["g3"].allMetrics) = BagCardinality(builtinMetrics) + 3
    /\ pc["g1"] = "Locking"
    /\ frame["g1"].op = "StopRealtimeMetricsForKey"
    /\ Len(SliceAt(workflows, "run-A")) = 2
    /\ pc["g2"] = "Locking"
    /\ frame["g2"].op = "UpsertCustomMetric"

\* an Upsert of the key holds the mutex and has not returned yet
UpsertInProgress(k) ==
    \E g \in Procs : Holding(g) /\ frame[g].op = "UpsertCustomMetric" /\ frame[g].key = k

\* C16: with the Upserts of the goroutines under keys of their own running
\* together with Gets and calls of allMetrics: once an Upsert of a key has
\* returned without an error and no removal has deleted the entry since, the
\* entry holds the instrument of that Upsert, and if the Upsert was realtime
\* the owner's list names the key (unless the next Upsert of the key is under
\* way); and every Get returns nil or the instrument of the last such Upsert.
C16_ConcurrentSafety ==
    /\ \A k \in Keys :
           (lastUpsert[k].done /\ ~UpsertInProgress(k)) =>
               /\ MetricAt(customMetrics, k) = lastUpsert[k].metric
               /\ lastUpsert[k].realtime =>
                      \E i \in 1..Len(SliceAt(workflows, lastUpsert[k].owner)) :
                          workflows[lastUpsert[k].owner][i] = k
    /\ \A g \in Procs :
           (frame[g].op = "GetCustomMetric" /\ pc[g] = "RUnlock") =>
               frame[g].result =
                   (IF lastUpsert[frame[g].key].done THEN lastUpsert[frame[g].key].metric ELSE Nil)

\* C16 witness: the Upserts of both keys have returned, both keys are in the
\* owner's list, and a Get is about to return an instrument.
C16_Witness ==
    /\ lastUpsert["m1"].done
    /\ lastUpsert["m2"].done
    /\ lastUpsert["m2"].realtime
    /\ Len(SliceAt(workflows, "run-A")) = 2
    /\ pc["g3"] = "RUnlock"
    /\ frame["g3"].op = "GetCustomMetric"
    /\ frame["g3"].result # Nil

\* the goroutine holds the mutex for reading, and nobody holds it for writing
HoldsShared(g) == g \in mutex.readers /\ mutex.writer = None

\* the goroutine holds the mutex for writing, and no other goroutine is
\* between its lock statement and its return
HoldsExclusive(g) ==
    /\ mutex.writer = g
    /\ mutex.readers = {}
    /\ \A h \in Procs \ {g} : ~Holding(h)

\* a queue accessor that has the mutex and finds the instrument already made
LookupOfCreated(g) ==
    /\ frame[g].op \in QueueOps
    /\ pc[g] = "create"
    /\ QueueKey(frame[g]) \in DOMAIN workqueueMetrics

\* a queue accessor that has the mutex and is about to make the instrument
FirstCreation(g) ==
    /\ frame[g].op \in QueueOps
    /\ pc[g] = "create"
    /\ QueueKey(frame[g]) \notin DOMAIN workqueueMetrics

\* C17 as claimed: GetCustomMetric, allMetrics and a queue accessor looking up
\* an instrument already made hold the mutex shared; UpsertCustomMetric,
\* StopRealtimeMetricsForKey and a queue accessor making the instrument hold it
\* exclusively.
C17_LockModesAsClaimed ==
    \A g \in Procs :
        Holding(g) =>
            /\ (frame[g].op \in ReadOps \/ LookupOfCreated(g)) => HoldsShared(g)
            /\ (frame[g].op \in {"UpsertCustomMetric", "StopRealtimeMetricsForKey"} \/ FirstCreation(g)) =>
                   HoldsExclusive(g)

\* C17: GetCustomMetric and allMetrics hold the mutex shared;
\* UpsertCustomMetric, StopRealtimeMetricsForKey and every call of a queue
\* accessor, whether it makes the instrument or finds it made, hold it
\* exclusively, so that no other goroutine is inside a method meanwhile.
C17_LockModes ==
    \A g \in Procs :
        Holding(g) =>
            IF frame[g].op \in ReadOps THEN HoldsShared(g) ELSE HoldsExclusive(g)

\* C17 witness: a queue accessor that finds its instrument already made holds
\* the mutex for writing while a Get and a call of allMetrics wait for it.
C17_Witness ==
    /\ LookupOfCreated("g2")
    /\ mutex.writer = "g2"
    /\ pc["g3"] = "RLocking"
    /\ pc["g1"] = "Locking"

\* every goroutine has taken the mutex once when it is inside a method and
\* holds it in the mode of its method, and holds nothing when it waits for the
\* mutex or is outside; the mutex is held by such goroutines only
LockAccounting ==
    /\ \A g \in Procs :
           /\ pc[g] = "idle" => (frame[g] = NoFrame /\ mutex.writer # g /\ g \notin mutex.readers)
           /\ pc[g] \in {"Lock", "RLock"} =>
                  (frame[g].acquired = 0 /\ mutex.writer # g /\ g \notin mutex.readers)
           /\ pc[g] = "Locking" =>
                  (frame[g].acquired = 1 /\ mutex.writer # g /\ g \notin mutex.readers)
           /\ pc[g] = "RLocking" =>
                  (frame[g].acquired = 1 /\ mutex.writer # g /\ (g \in mutex.readers) # (g \in mutex.blocked))
           /\ Holding(g) =>
                  /\ frame[g].acquired = 1
                  /\ IF frame[g].op \in ReadOps
                     THEN g \in mutex.readers /\ mutex.writer # g
                     ELSE mutex.writer = g /\ g \notin mutex.readers
    /\ mutex.writer \in Procs \cup {None}
    /\ \A g \in mutex.readers : Holding(g) \/ pc[g] = "RLocking"
    /\ \A g \in mutex.blocked : pc[g] = "RLocking"
    /\ \A i \in 1..Len(mutex.waiting) : pc[mutex.waiting[i]] = "Locking"

\* C18: every method takes the mutex once, never while it holds it, and has
\* released it when it has returned, by whichever return statement; and with
\* the scheduling of Fairness every call that was made returns.
C18_TerminatesAndReleases ==
    /\ []LockAccounting
    /\ \A g \in Procs : (pc[g] # "idle") ~> (pc[g] = "idle")

\* C18 witness: an Upsert turned down for its help text is about to return and
\* release the mutex two other goroutines wait for.
C18_Witness ==
    /\ pc["g2"] = "Unlock"
    /\ frame["g2"].err = ErrHelp
    /\ mutex.writer = "g2"
    /\ pc["g1"] = "Locking"
    /\ pc["g3"] = "RLocking"

====
